---- MODULE Spec2Model ----
(***************************************************************************)
(* A model of Loader.cpp: a run of main (GLFW/GLEW bootstrap, loading of   *)
(* the two shader files, compilation, linking, teardown), the helpers      *)
(* readFileAsStdListOfStrings, getErrorMessage, error and compileShader,   *)
(* and the part of the GL/GLFW backend state main acts on. Spec is one run *)
(* of the process, SpecRuns a sequence of runs.                            *)
(*                                                                         *)
(* The translation unit does not define NDEBUG, so assert(e) evaluates e   *)
(* and aborts the process when it is false.                                *)
(* GL commands that the code follows with assert(!error()) may record an   *)
(* error (and then have no effect); the queries glGetIntegerv,             *)
(* glGetShaderiv, glGetProgramiv and glGet*InfoLog are called with valid   *)
(* arguments and record none.                                              *)
(***************************************************************************)
EXTENDS Integers, Sequences, FiniteSets, TLC

\* ------------------------------------------------------------------ bounds

\* longest file content, in characters
MaxFileLen == 2
\* longest backend info log, in characters
MaxLogLen == 1

\* ------------------------------------------------------- program constants

GL_NO_ERROR == 0
GL_INVALID_ENUM == 1280
GL_INVALID_OPERATION == 1282
GL_OUT_OF_MEMORY == 1285

\* what a command followed by assert(!error()) may record: nothing, or the one
\* error any command may meet
CommandErrors == {GL_NO_ERROR, GL_OUT_OF_MEMORY}
\* what glewInit may leave in the flag (its extension queries on a core profile)
GlewErrors == {GL_NO_ERROR, GL_INVALID_ENUM}

VertFile == "Shader.vert"
FragFile == "Shader.frag"
FileNames == {VertFile, FragFile}

\* ------------------------------------------------------------- file system

NL == "\n"
Chars == {"a", NL}

RECURSIVE SeqsUpTo(_, _)
SeqsUpTo(S, n) ==
    IF n = 0 THEN {<<>>}
    ELSE LET shorter == SeqsUpTo(S, n - 1)
         IN  shorter \cup {Append(s, c) : s \in {t \in shorter : Len(t) = n - 1}, c \in S}

\* what a path names: some content, and whether opening it for reading succeeds
\* (it does not for a missing or an unreadable file)
FileStates == [openable : BOOLEAN, content : SeqsUpTo(Chars, MaxFileLen)]

\* ------------------------------------------------ readFileAsStdListOfStrings

\* index of the first line feed of s, 0 when it has none
FirstNL(s) ==
    IF \E i \in 1..Len(s) : s[i] = NL
    THEN CHOOSE i \in 1..Len(s) : s[i] = NL /\ \A j \in 1..(i - 1) : s[j] # NL
    ELSE 0

\* std::getline(in, string): fails when nothing is left; otherwise extracts up to
\* and without the next line feed, or up to the end of the file
getline(stream) ==
    IF stream = <<>> THEN [ok |-> FALSE, string |-> <<>>, rest |-> <<>>]
    ELSE LET i == FirstNL(stream)
         IN  IF i = 0
             THEN [ok |-> TRUE, string |-> stream, rest |-> <<>>]
             ELSE [ok |-> TRUE, string |-> SubSeq(stream, 1, i - 1),
                   rest |-> SubSeq(stream, i + 1, Len(stream))]

\* what the loop stores for one line read: string + "\n"
StoredLine_NoTerminator(string) == string

StoredLine(string) == string \o <<NL>>

RECURSIVE ReadLoop(_, _)
ReadLoop(stream, result) ==
    LET g == getline(stream)
    IN  IF g.ok THEN ReadLoop(g.rest, Append(result, StoredLine(g.string)))
        ELSE result

\* the optional returned when the stream did not open
NotOpenResult_EmptyList == [present |-> TRUE, lines |-> <<>>]

NotOpenResult == [present |-> FALSE, lines |-> <<>>]

readFileAsStdListOfStrings(file) ==
    IF ~file.openable THEN NotOpenResult
    ELSE [present |-> TRUE, lines |-> ReadLoop(file.content, <<>>)]

\* ------------------------------------------------- getErrorMessage, error

errorStrings(e) ==
    CASE e = GL_NO_ERROR -> "No error has been recorded. THIS message is the error itself."
      [] e = GL_INVALID_ENUM -> "An unacceptable value is specified for an enumerated argument."
      [] e = GL_INVALID_OPERATION -> "The specified operation is not allowed in the current state."
      [] e = GL_OUT_OF_MEMORY -> "There is not enough memory left to execute the command."
      [] OTHER -> "No description available. Incompatible OpenGL version?"

\* the message as the pieces streamed into it; empty when glGetError gave GL_NO_ERROR
getErrorMessage(e) ==
    IF e = GL_NO_ERROR THEN <<>>
    ELSE <<"OpenGL error: ", ToString(e), "\n", "Error string: ", errorStrings(e), "\n">>

error_Never(e) == FALSE

\* error(): whether glGetError gave an error (the flag e, which the call clears)
error(e) == Len(getErrorMessage(e)) # 0

\* ------------------------------------------------------------------- state

VARIABLES
    files,          \* the file system: path -> what opening it gives
    pc,             \* the statement the run is at; "done" (returned) or "aborted"
    frame,          \* "main", or the shader ("vs", "fs") compileShader is running for
    returnedAt,     \* the return statement of main that was taken, "" before
    exitCode,       \* <<>> until main returns, then <<code>>
    glfw,           \* the windowing library: whether glfwInit succeeded, the live window,
                    \* the current context, the glfwDestroyWindow and glfwTerminate calls
    window,         \* main's window pointer (0: nullptr)
    glewOk,         \* main's glewOk == GLEW_OK
    glError,        \* the context's error flag, read and cleared by glGetError
    objs,           \* the context's shader and program objects by name
    vertexSource,   \* main's locals
    fragmentSource,
    vs,
    fs,
    program,
    compiled,       \* what each compileShader call returned ("none" before)
    linkStatus,
    out,            \* std::cout
    err,            \* std::cerr
    calls,          \* the object-changing GL commands issued so far, in order
    prev            \* the previous run's outcome, for a process started again

vars == <<files, pc, frame, returnedAt, exitCode, glfw, window, glewOk, glError, objs,
          vertexSource, fragmentSource, vs, fs, program, compiled, linkStatus,
          out, err, calls, prev>>

Names == 1..3

NoObject ==
    [kind |-> "none", type |-> "", strings |-> <<>>, sourced |-> 0, compiles |-> 0,
     status |-> 0, log |-> <<>>, attached |-> <<>>, links |-> 0, deletes |-> 0]

Logs == SeqsUpTo({"e"}, MaxLogLen)

\* GL_MAX_VERTEX_UNIFORM_VECTORS as drivers report it
MaxVectorChoices == {1024}

NoRun == [site |-> "", code |-> <<>>]

NoGlfw == [inited |-> FALSE, window |-> 0, current |-> 0, destroyed |-> 0, terminated |-> 0]

NoObjects == [n \in Names |-> NoObject]

InitRun ==
    /\ pc = "glfwInit"
    /\ frame = "main"
    /\ returnedAt = ""
    /\ exitCode = <<>>
    /\ glfw = NoGlfw
    /\ window = 0
    /\ glewOk = FALSE
    /\ glError = GL_NO_ERROR
    /\ objs = NoObjects
    /\ vertexSource = NotOpenResult
    /\ fragmentSource = NotOpenResult
    /\ vs = 0
    /\ fs = 0
    /\ program = 0
    /\ compiled = [vs |-> "none", fs |-> "none"]
    /\ linkStatus = 0
    /\ out = <<>>
    /\ err = <<>>
    /\ calls = <<>>

Init ==
    /\ files \in [FileNames -> FileStates]
    /\ prev = NoRun
    /\ InitRun

\* ----------------------------------------------------------------- helpers

Text(s) == [s |-> s, raw |-> <<>>]
Raw(chars) == [s |-> "", raw |-> chars]

\* the error flag after a command that recorded e (the first error is kept)
Record(flag, e) == IF flag = GL_NO_ERROR THEN e ELSE flag

\* glCreateShader / glCreateProgram give an unused name
NewName(o) == CHOOSE n \in Names : o[n].kind = "none" /\ \A m \in 1..(n - 1) : o[m].kind # "none"

\* the value of each return statement of main
ReturnCode_InitAsWindow(site) ==
    CASE site = "glfwInit" -> 1
      [] site = "window" -> 1
      [] site \in {"glew", "vs", "fs", "program", "link"} -> 2
      [] site = "vertexSource" -> 4
      [] site \in {"fragmentSource", "compileVs", "compileFs"} -> 5
      [] site = "success" -> 0

ReturnCode_NoFour(site) ==
    CASE site = "glfwInit" -> 3
      [] site = "window" -> 1
      [] site \in {"glew", "vs", "fs", "program", "link"} -> 2
      [] site \in {"vertexSource", "fragmentSource", "compileVs", "compileFs"} -> 5
      [] site = "success" -> 0

ReturnCode(site) ==
    CASE site = "glfwInit" -> 3
      [] site = "window" -> 1
      [] site \in {"glew", "vs", "fs", "program", "link"} -> 2
      [] site = "vertexSource" -> 4
      [] site \in {"fragmentSource", "compileVs", "compileFs"} -> 5
      [] site = "success" -> 0

\* what each failure return writes to std::cerr first
ErrorLine(site) ==
    CASE site = "glfwInit" -> "Error: glfw init failed.\n"
      [] site = "window" -> "Error: window is null.\n"
      [] site = "glew" -> "Error: glew not OK.\n"
      [] site = "vertexSource" -> "Error: could not load vertex source.\n"
      [] site = "fragmentSource" -> "Error: could not load fragment source.\n"
      [] site = "vs" -> "Error: vertex shader is 0.\n"
      [] site = "fs" -> "Error: fragment shader is 0.\n"
      [] site = "compileVs" -> "Error: could not compile vertex shader.\n"
      [] site = "compileFs" -> "Error: could not compile fragment shader.\n"
      [] site = "program" -> "Error: program is 0.\n"
      [] site = "link" -> "Error: could not link.\n"

\* the failure returns that call glfwTerminate() before returning
CallsTerminate_Always(site) == TRUE

CallsTerminate(site) == site \in {"window", "glew"}

\* a failure return of main: the message, glfwTerminate where the code calls it
Fail(site) ==
    /\ pc' = "done"
    /\ returnedAt' = site
    /\ exitCode' = <<ReturnCode(site)>>
    /\ err' = Append(err, ErrorLine(site))
    /\ glfw' = IF CallsTerminate(site)
               THEN [glfw EXCEPT !.terminated = @ + 1, !.window = 0, !.current = 0]
               ELSE glfw

\* assert(!error()): error() reads and clears the flag and prints the message;
\* a false assertion aborts the process, a true one goes on to `next`
Checked(next) ==
    /\ pc' = IF error(glError) THEN "aborted" ELSE next
    /\ err' = err \o getErrorMessage(glError)
    /\ glError' = GL_NO_ERROR

\* ------------------------------------------------------- main: bootstrap

\* lines 93-96
GlfwInit ==
    /\ frame = "main" /\ pc = "glfwInit"
    /\ \E ok \in BOOLEAN :
        IF ok
        THEN /\ glfw' = [glfw EXCEPT !.inited = TRUE]
             /\ pc' = "createWindow"
             /\ UNCHANGED <<returnedAt, exitCode, err>>
        ELSE Fail("glfwInit")
    /\ UNCHANGED <<files, frame, window, glewOk, glError, objs, vertexSource,
                   fragmentSource, vs, fs, program, compiled, linkStatus, out, calls, prev>>

\* lines 97-104
CreateWindow ==
    /\ frame = "main" /\ pc = "createWindow"
    /\ \E w \in {0, 1} :
        /\ window' = w
        /\ IF w = 0
           THEN Fail("window")
           ELSE /\ glfw' = [glfw EXCEPT !.window = w, !.current = w]
                /\ pc' = "glewInit"
                /\ UNCHANGED <<returnedAt, exitCode, err>>
    /\ UNCHANGED <<files, frame, glewOk, glError, objs, vertexSource,
                   fragmentSource, vs, fs, program, compiled, linkStatus, out, calls, prev>>

\* lines 106-111
GlewInit ==
    /\ frame = "main" /\ pc = "glewInit"
    /\ \E ok \in BOOLEAN, e \in GlewErrors :
        /\ glewOk' = ok
        /\ glError' = Record(glError, e)
        /\ IF ok
           THEN /\ pc' = "maxVectors"
                /\ UNCHANGED <<returnedAt, exitCode, err, glfw>>
           ELSE Fail("glew")
    /\ UNCHANGED <<files, frame, window, objs, vertexSource,
                   fragmentSource, vs, fs, program, compiled, linkStatus, out, calls, prev>>

\* lines 113-116
MaxVectors ==
    /\ frame = "main" /\ pc = "maxVectors"
    /\ \E maxVertexUniformVectors \in MaxVectorChoices :
        out' = out \o <<Text("Max vectors: "), Text(ToString(maxVertexUniformVectors)),
                        Text("\n")>>
    /\ pc' = "load"
    /\ UNCHANGED <<files, frame, returnedAt, exitCode, glfw, window, glewOk, glError, objs,
                   vertexSource, fragmentSource, vs, fs, program, compiled, linkStatus,
                   err, calls, prev>>

\* lines 118-121
LoadSources ==
    /\ frame = "main" /\ pc = "load"
    /\ out' = out \o <<Text("Loading shader sources..."), Text("\n")>>
    /\ vertexSource' = readFileAsStdListOfStrings(files[VertFile])
    /\ fragmentSource' = readFileAsStdListOfStrings(files[FragFile])
    /\ pc' = "checkSources"
    /\ UNCHANGED <<files, frame, returnedAt, exitCode, glfw, window, glewOk, glError, objs,
                   vs, fs, program, compiled, linkStatus, err, calls, prev>>

\* lines 122-129
CheckSources ==
    /\ frame = "main" /\ pc = "checkSources"
    /\ IF ~vertexSource.present THEN Fail("vertexSource")
       ELSE IF ~fragmentSource.present THEN Fail("fragmentSource")
       ELSE /\ pc' = "createVs"
            /\ UNCHANGED <<returnedAt, exitCode, err, glfw>>
    /\ UNCHANGED <<files, frame, window, glewOk, glError, objs, vertexSource,
                   fragmentSource, vs, fs, program, compiled, linkStatus, out, calls, prev>>

\* -------------------------------------------------------------- GL backend

\* glCreateShader(type) / glCreateProgram(): a new object under an unused name, or 0
NewObject(kind, type) == [NoObject EXCEPT !.kind = kind, !.type = type]

\* glGet{Shader,Program}iv(.., GL_INFO_LOG_LENGTH, ..): the log's length with its
\* terminator, 0 when there is no log
InfoLogLength(log) == IF log = <<>> THEN 0 ELSE Len(log) + 1

\* glGet{Shader,Program}InfoLog(.., maxLength, nullptr, buffer): at most
\* maxLength - 1 characters and the terminator; std::cout << buffer prints them
InfoLog(log, maxLength) ==
    SubSeq(log, 1, IF Len(log) < maxLength - 1 THEN Len(log) ELSE maxLength - 1)

\* glDeleteShader(h): 0 is ignored, a shader object is deleted (flagged while it
\* is attached), any other name records an error and deletes nothing
glDeleteShader(st, h) ==
    IF h = 0 THEN st
    ELSE IF st.objs[h].kind = "shader"
    THEN [st EXCEPT !.objs[h].deletes = @ + 1]
    ELSE [st EXCEPT !.flag = Record(@, GL_INVALID_OPERATION)]

\* ------------------------------------------------------ main: create shaders

Kind(which) == IF which = "vs" THEN "vertex" ELSE "fragment"

\* lines 132, 138
CreateShader(which) ==
    /\ frame = "main" /\ pc = (IF which = "vs" THEN "createVs" ELSE "createFs")
    /\ \E ok \in BOOLEAN, e \in CommandErrors :
        LET name == IF ok THEN NewName(objs) ELSE 0
        IN  /\ IF which = "vs" THEN vs' = name /\ fs' = fs ELSE fs' = name /\ vs' = vs
            /\ objs' = IF ok THEN [objs EXCEPT ![name] = NewObject("shader", Kind(which))]
                       ELSE objs
            /\ glError' = Record(glError, e)
    /\ calls' = Append(calls, IF which = "vs" THEN "createVs" ELSE "createFs")
    /\ pc' = (IF which = "vs" THEN "checkVs" ELSE "checkFs")
    /\ UNCHANGED <<files, frame, returnedAt, exitCode, glfw, window, glewOk, vertexSource,
                   fragmentSource, program, compiled, linkStatus, out, err, prev>>

\* lines 133-137, 139-143
CheckShader(which) ==
    /\ frame = "main" /\ pc = (IF which = "vs" THEN "checkVs" ELSE "checkFs")
    /\ IF (IF which = "vs" THEN vs ELSE fs) = 0
       THEN Fail(which) /\ UNCHANGED glError
       ELSE /\ Checked(IF which = "vs" THEN "createFs" ELSE "compileVs")
            /\ UNCHANGED <<returnedAt, exitCode, glfw>>
    /\ UNCHANGED <<files, frame, window, glewOk, objs, vertexSource, fragmentSource,
                   vs, fs, program, compiled, linkStatus, out, calls, prev>>

\* ------------------------------------------------------------ compileShader

Shader(which) == IF which = "vs" THEN vs ELSE fs
Source(which) == IF which = "vs" THEN vertexSource.lines ELSE fragmentSource.lines

\* lines 146-147, 152-153: the progress line and the call
EnterCompile(which) ==
    /\ frame = "main" /\ pc = (IF which = "vs" THEN "compileVs" ELSE "compileFs")
    /\ out' = out \o <<Text(IF which = "vs" THEN "Compiling vertex shader..."
                                             ELSE "Compiling fragment shader..."),
                       Text("\n")>>
    /\ frame' = which
    /\ pc' = "source"
    /\ UNCHANGED <<files, returnedAt, exitCode, glfw, window, glewOk, glError, objs,
                   vertexSource, fragmentSource, vs, fs, program, compiled, linkStatus,
                   err, calls, prev>>

\* lines 66-69: the vector of the lines' c_str()s, in list order
RECURSIVE EmplaceAll_Reversed(_, _)
EmplaceAll_Reversed(source, vsSource) ==
    IF source = <<>> THEN vsSource
    ELSE EmplaceAll_Reversed(Tail(source), <<Head(source)>> \o vsSource)

RECURSIVE EmplaceAll(_, _)
EmplaceAll(source, vsSource) ==
    IF source = <<>> THEN vsSource
    ELSE EmplaceAll(Tail(source), Append(vsSource, Head(source)))

\* lines 66-70: glShaderSource(shader, count, strings, nullptr) makes the first
\* count strings the shader's source
ShaderSource ==
    /\ frame \in {"vs", "fs"} /\ pc = "source"
    /\ \E e \in CommandErrors :
        LET vsSource == EmplaceAll(Source(frame), <<>>)
            vsLinesCount == Len(Source(frame))
        IN  /\ objs' = IF e = GL_NO_ERROR
                       THEN [objs EXCEPT ![Shader(frame)].strings =
                                             SubSeq(vsSource, 1, vsLinesCount),
                                         ![Shader(frame)].sourced = @ + 1]
                       ELSE objs
            /\ glError' = Record(glError, e)
    /\ calls' = Append(calls, IF frame = "vs" THEN "sourceVs" ELSE "sourceFs")
    /\ pc' = "sourceChk"
    /\ UNCHANGED <<files, frame, returnedAt, exitCode, glfw, window, glewOk, vertexSource,
                   fragmentSource, vs, fs, program, compiled, linkStatus, out, err, prev>>

\* line 71
SourceChecked ==
    /\ frame \in {"vs", "fs"} /\ pc = "sourceChk"
    /\ Checked("compile")
    /\ UNCHANGED <<files, frame, returnedAt, exitCode, glfw, window, glewOk, objs,
                   vertexSource, fragmentSource, vs, fs, program, compiled, linkStatus,
                   out, calls, prev>>

\* line 72: the compiler decides the status and writes the log
CompileShader ==
    /\ frame \in {"vs", "fs"} /\ pc = "compile"
    /\ \E e \in CommandErrors, status \in {0, 1}, log \in Logs :
        /\ objs' = IF e = GL_NO_ERROR
                   THEN [objs EXCEPT ![Shader(frame)].status = status,
                                     ![Shader(frame)].log = log,
                                     ![Shader(frame)].compiles = @ + 1]
                   ELSE objs
        /\ glError' = Record(glError, e)
    /\ calls' = Append(calls, IF frame = "vs" THEN "compileVs" ELSE "compileFs")
    /\ pc' = "compileChk"
    /\ UNCHANGED <<files, frame, returnedAt, exitCode, glfw, window, glewOk, vertexSource,
                   fragmentSource, vs, fs, program, compiled, linkStatus, out, err, prev>>

\* line 73
CompileChecked ==
    /\ frame \in {"vs", "fs"} /\ pc = "compileChk"
    /\ Checked("log")
    /\ UNCHANGED <<files, frame, returnedAt, exitCode, glfw, window, glewOk, objs,
                   vertexSource, fragmentSource, vs, fs, program, compiled, linkStatus,
                   out, calls, prev>>

\* lines 77-83, 176-182: what is printed for a log of the given length
PrintLog(log, logLength) ==
    IF logLength > 0
    THEN <<Text("Log: "), Text("\n"), Raw(InfoLog(log, logLength))>>
    ELSE <<>>

\* lines 75-83
ShaderLog ==
    /\ frame \in {"vs", "fs"} /\ pc = "log"
    /\ LET logLength == InfoLogLength(objs[Shader(frame)].log)
       IN  out' = out \o PrintLog(objs[Shader(frame)].log, logLength)
    /\ pc' = "status"
    /\ UNCHANGED <<files, frame, returnedAt, exitCode, glfw, window, glewOk, glError, objs,
                   vertexSource, fragmentSource, vs, fs, program, compiled, linkStatus,
                   err, calls, prev>>

\* line 87: bool(compileStatus)
ToBool(compileStatus) == compileStatus # 0

\* lines 85-87: the status query and the return to main
ShaderStatus ==
    /\ frame \in {"vs", "fs"} /\ pc = "status"
    /\ LET compileStatus == objs[Shader(frame)].status
       IN  compiled' = [compiled EXCEPT ![frame] =
                            IF ToBool(compileStatus) THEN "true" ELSE "false"]
    /\ pc' = (IF frame = "vs" THEN "vsResult" ELSE "fsResult")
    /\ frame' = "main"
    /\ UNCHANGED <<files, returnedAt, exitCode, glfw, window, glewOk, glError, objs,
                   vertexSource, fragmentSource, vs, fs, program, linkStatus,
                   out, err, calls, prev>>

\* whether main goes on after a compileShader call that returned `result`
GoesOn_Always(result) == TRUE

GoesOn(result) == result = "true"

\* lines 147-150, 153-156
CompileResult(which) ==
    /\ frame = "main" /\ pc = (IF which = "vs" THEN "vsResult" ELSE "fsResult")
    /\ IF GoesOn(compiled[which])
       THEN /\ pc' = (IF which = "vs" THEN "compileFs" ELSE "createProgram")
            /\ UNCHANGED <<returnedAt, exitCode, err, glfw>>
       ELSE Fail(IF which = "vs" THEN "compileVs" ELSE "compileFs")
    /\ UNCHANGED <<files, frame, window, glewOk, glError, objs, vertexSource,
                   fragmentSource, vs, fs, program, compiled, linkStatus, out, calls, prev>>

\* ----------------------------------------------------------- main: linking

\* line 159
CreateProgram ==
    /\ frame = "main" /\ pc = "createProgram"
    /\ \E ok \in BOOLEAN, e \in CommandErrors :
        LET name == IF ok THEN NewName(objs) ELSE 0
        IN  /\ program' = name
            /\ objs' = IF ok THEN [objs EXCEPT ![name] = NewObject("program", "")] ELSE objs
            /\ glError' = Record(glError, e)
    /\ calls' = Append(calls, "createProgram")
    /\ pc' = "checkProgram"
    /\ UNCHANGED <<files, frame, returnedAt, exitCode, glfw, window, glewOk, vertexSource,
                   fragmentSource, vs, fs, compiled, linkStatus, out, err, prev>>

\* lines 160-164
CheckProgram ==
    /\ frame = "main" /\ pc = "checkProgram"
    /\ IF program = 0
       THEN Fail("program") /\ UNCHANGED glError
       ELSE /\ Checked("attachVs")
            /\ UNCHANGED <<returnedAt, exitCode, glfw>>
    /\ UNCHANGED <<files, frame, window, glewOk, objs, vertexSource, fragmentSource,
                   vs, fs, program, compiled, linkStatus, out, calls, prev>>

\* lines 165, 167
AttachShader(which) ==
    /\ frame = "main" /\ pc = (IF which = "vs" THEN "attachVs" ELSE "attachFs")
    /\ \E e \in CommandErrors :
        /\ objs' = IF e = GL_NO_ERROR
                   THEN [objs EXCEPT ![program].attached = Append(@, Shader(which))]
                   ELSE objs
        /\ glError' = Record(glError, e)
    /\ calls' = Append(calls, IF which = "vs" THEN "attachVs" ELSE "attachFs")
    /\ pc' = (IF which = "vs" THEN "attachVsChk" ELSE "attachFsChk")
    /\ UNCHANGED <<files, frame, returnedAt, exitCode, glfw, window, glewOk, vertexSource,
                   fragmentSource, vs, fs, program, compiled, linkStatus, out, err, prev>>

\* lines 166, 168
AttachChecked(which) ==
    /\ frame = "main" /\ pc = (IF which = "vs" THEN "attachVsChk" ELSE "attachFsChk")
    /\ Checked(IF which = "vs" THEN "attachFs" ELSE "link")
    /\ UNCHANGED <<files, frame, returnedAt, exitCode, glfw, window, glewOk, objs,
                   vertexSource, fragmentSource, vs, fs, program, compiled, linkStatus,
                   out, calls, prev>>

\* line 169: the linker decides the status and writes the log
LinkProgram ==
    /\ frame = "main" /\ pc = "link"
    /\ \E e \in CommandErrors, status \in {0, 1}, log \in Logs :
        /\ objs' = IF e = GL_NO_ERROR
                   THEN [objs EXCEPT ![program].status = status,
                                     ![program].log = log,
                                     ![program].links = @ + 1]
                   ELSE objs
        /\ glError' = Record(glError, e)
    /\ calls' = Append(calls, "link")
    /\ pc' = "linkChk"
    /\ UNCHANGED <<files, frame, returnedAt, exitCode, glfw, window, glewOk, vertexSource,
                   fragmentSource, vs, fs, program, compiled, linkStatus, out, err, prev>>

\* line 170
LinkChecked ==
    /\ frame = "main" /\ pc = "linkChk"
    /\ Checked("programLog")
    /\ UNCHANGED <<files, frame, returnedAt, exitCode, glfw, window, glewOk, objs,
                   vertexSource, fragmentSource, vs, fs, program, compiled, linkStatus,
                   out, calls, prev>>

\* lines 172-182
ProgramLog ==
    /\ frame = "main" /\ pc = "programLog"
    /\ LET logLength == InfoLogLength(objs[program].log)
       IN  out' = out \o PrintLog(objs[program].log, logLength)
    /\ pc' = "linkStatus"
    /\ UNCHANGED <<files, frame, returnedAt, exitCode, glfw, window, glewOk, glError, objs,
                   vertexSource, fragmentSource, vs, fs, program, compiled, linkStatus,
                   err, calls, prev>>

\* lines 183-189
LinkStatus ==
    /\ frame = "main" /\ pc = "linkStatus"
    /\ linkStatus' = objs[program].status
    /\ IF linkStatus' = 0
       THEN Fail("link") /\ UNCHANGED glError
       ELSE /\ Checked("deleteShaders")
            /\ UNCHANGED <<returnedAt, exitCode, glfw>>
    /\ UNCHANGED <<files, frame, window, glewOk, objs, vertexSource, fragmentSource,
                   vs, fs, program, compiled, out, calls, prev>>

\* ---------------------------------------------------------- main: teardown

\* lines 190-191
DeleteShaders ==
    /\ frame = "main" /\ pc = "deleteShaders"
    /\ LET st == glDeleteShader(glDeleteShader([objs |-> objs, flag |-> glError], vs), fs)
       IN  objs' = st.objs /\ glError' = st.flag
    /\ pc' = "shutdown"
    /\ UNCHANGED <<files, frame, returnedAt, exitCode, glfw, window, glewOk, vertexSource,
                   fragmentSource, vs, fs, program, compiled, linkStatus, out, err,
                   calls, prev>>

\* lines 193-199
Shutdown ==
    /\ frame = "main" /\ pc = "shutdown"
    /\ out' = out \o <<Text("Finishing..."), Text("\n")>>
    /\ LET st == glDeleteShader([objs |-> objs, flag |-> glError], program)
       IN  objs' = st.objs /\ glError' = st.flag
    /\ glfw' = [glfw EXCEPT !.current = 0,
                            !.window = 0,
                            !.destroyed = @ + 1,
                            !.terminated = @ + 1]
    /\ pc' = "done"
    /\ returnedAt' = "success"
    /\ exitCode' = <<ReturnCode("success")>>
    /\ UNCHANGED <<files, frame, window, glewOk, vertexSource, fragmentSource,
                   vs, fs, program, compiled, linkStatus, err, calls, prev>>

\* ----------------------------------------------------------- specification

Next ==
    \/ GlfwInit
    \/ CreateWindow
    \/ GlewInit
    \/ MaxVectors
    \/ LoadSources
    \/ CheckSources
    \/ \E which \in {"vs", "fs"} : CreateShader(which)
    \/ \E which \in {"vs", "fs"} : CheckShader(which)
    \/ \E which \in {"vs", "fs"} : EnterCompile(which)
    \/ ShaderSource
    \/ SourceChecked
    \/ CompileShader
    \/ CompileChecked
    \/ ShaderLog
    \/ ShaderStatus
    \/ \E which \in {"vs", "fs"} : CompileResult(which)
    \/ CreateProgram
    \/ CheckProgram
    \/ \E which \in {"vs", "fs"} : AttachShader(which)
    \/ \E which \in {"vs", "fs"} : AttachChecked(which)
    \/ LinkProgram
    \/ LinkChecked
    \/ ProgramLog
    \/ LinkStatus
    \/ DeleteShaders
    \/ Shutdown

Spec == Init /\ [][Next]_vars

\* The process run again after it ended (returned or aborted): nothing of a run
\* outlives it but what the one who started it saw, its exit. Between two runs
\* the files keep their content; whether each can be opened may change.
Restart ==
    /\ pc \in {"done", "aborted"}
    /\ prev' = [site |-> returnedAt, code |-> exitCode]
    /\ files' \in {f \in [FileNames -> FileStates] :
                        \A n \in FileNames : f[n].content = files[n].content}
    /\ pc' = "glfwInit"
    /\ frame' = "main"
    /\ returnedAt' = ""
    /\ exitCode' = <<>>
    /\ glfw' = NoGlfw
    /\ window' = 0
    /\ glewOk' = FALSE
    /\ glError' = GL_NO_ERROR
    /\ objs' = NoObjects
    /\ vertexSource' = NotOpenResult
    /\ fragmentSource' = NotOpenResult
    /\ vs' = 0
    /\ fs' = 0
    /\ program' = 0
    /\ compiled' = [vs |-> "none", fs |-> "none"]
    /\ linkStatus' = 0
    /\ out' = <<>>
    /\ err' = <<>>
    /\ calls' = <<>>

NextRuns == Next \/ Restart

SpecRuns == Init /\ [][NextRuns]_vars

\* ================================================================== claims

RECURSIVE Concat(_)
Concat(lines) == IF lines = <<>> THEN <<>> ELSE Head(lines) \o Concat(Tail(lines))

\* both readFileAsStdListOfStrings calls of this run have returned
Loaded == \E i \in 1..Len(out) : out[i] = Text("Loading shader sources...")

Loads == {<<VertFile, vertexSource>>, <<FragFile, fragmentSource>>}

\* ---- C1

\* the first stage, in pipeline order, whose outcome is a failure ("none": no stage)
FirstFailure ==
    IF ~glfw.inited THEN "glfwInit"
    ELSE IF window = 0 THEN "window"
    ELSE IF ~glewOk THEN "glew"
    ELSE IF ~files[VertFile].openable THEN "vertexLoad"
    ELSE IF ~files[FragFile].openable THEN "fragmentLoad"
    ELSE IF vs = 0 THEN "vertexCreate"
    ELSE IF fs = 0 THEN "fragmentCreate"
    ELSE IF objs[vs].status = 0 THEN "vertexCompile"
    ELSE IF objs[fs].status = 0 THEN "fragmentCompile"
    ELSE IF program = 0 THEN "programCreate"
    ELSE IF objs[program].status = 0 THEN "link"
    ELSE "none"

\* the exit-code table
TableCode(stage) ==
    CASE stage = "none" -> 0
      [] stage = "window" -> 1
      [] stage \in {"glew", "vertexCreate", "fragmentCreate", "programCreate", "link"} -> 2
      [] stage = "glfwInit" -> 3
      [] stage = "vertexLoad" -> 4
      [] stage \in {"fragmentLoad", "vertexCompile", "fragmentCompile"} -> 5

\* C1: when main returns, its exit code is the one the table gives the first
\* failing stage in pipeline order (4 when both files are unreadable), and it is 0
\* exactly when no stage failed.
C1_ExitCodeTable ==
    pc = "done" =>
        /\ exitCode = <<TableCode(FirstFailure)>>
        /\ (exitCode = <<0>>) <=> (FirstFailure = "none")

C1_Witness ==
    /\ pc = "done"
    /\ ~files[VertFile].openable /\ ~files[FragFile].openable
    /\ exitCode = <<4>>

\* ---- C2

\* a run that failed: main returned, and not from its last statement
Failed(site) == site \notin {"", "success"}

\* C2 as stated: two runs that fail at different stages never end with the same
\* exit code.
C2_DistinctPerStage ==
    (pc = "done" /\ Failed(returnedAt) /\ Failed(prev.site) /\ prev.site # returnedAt)
        => exitCode # prev.code

\* the table's row of the return statement a failed run took
TableRow(site) ==
    CASE site = "glfwInit" -> "init"
      [] site = "window" -> "window"
      [] site \in {"glew", "vs", "fs", "program", "link"} -> "loader/object/link"
      [] site = "vertexSource" -> "vertex file"
      [] site \in {"fragmentSource", "compileVs", "compileFs"} -> "fragment file/compile"

\* C2 amended: a failed run ends with a non-zero exit code, and two runs that fail
\* at stages of different rows of the exit-code table end with different codes.
C2_DistinctPerRow ==
    (pc = "done" /\ Failed(returnedAt)) =>
        /\ exitCode # <<0>>
        /\ (Failed(prev.site) /\ TableRow(prev.site) # TableRow(returnedAt))
               => exitCode # prev.code

C2_Witness ==
    /\ pc = "done"
    /\ prev.site = "vertexSource" /\ prev.code = <<4>>
    /\ returnedAt = "fragmentSource" /\ exitCode = <<5>>

\* ---- C3

\* C3 as stated: a run that reaches teardown and returns 0 has released the
\* window, both shaders and the program exactly once each, by the release
\* operation of its kind.
C3_ReleasedOnce ==
    (pc = "done" /\ exitCode = <<0>>) =>
        /\ glfw.destroyed = 1
        /\ objs[vs].deletes = 1
        /\ objs[fs].deletes = 1
        /\ objs[program].deletes = 1

\* ---- C4

\* main created the context: glfwInit and the window creation succeeded
ContextCreated == glfw.inited /\ window # 0

\* C4 as stated: on every return of main after the context was created,
\* glfwTerminate has been called.
C4_AlwaysTornDown == (pc = "done" /\ ContextCreated) => glfw.terminated >= 1

\* C4 amended: of the returns of main after the context was created, the one of
\* the glewInit failure and the one of the success path call glfwTerminate (once);
\* the source-load, shader-creation, compile, program-creation and link failure
\* returns do not call it.
C4_TornDownWhere ==
    (pc = "done" /\ ContextCreated) =>
        /\ returnedAt \in {"glew", "success"} => glfw.terminated = 1
        /\ returnedAt \notin {"glew", "success"} => glfw.terminated = 0

C4_Witness ==
    /\ pc = "done" /\ ContextCreated
    /\ returnedAt = "success" /\ glfw.terminated = 1 /\ glfw.window = 0

\* ---- C5

Marker(which) ==
    Text(IF which = "vs" THEN "Compiling vertex shader..." ELSE "Compiling fragment shader...")

\* what compileShader has written to std::cout, at the state it returned in
WrittenBy(which) ==
    LET i == CHOOSE k \in 1..Len(out) : out[k] = Marker(which)
    IN  SubSeq(out, i + 2, Len(out))

Returned(which) == frame = "main" /\ pc = (IF which = "vs" THEN "vsResult" ELSE "fsResult")

\* C5: when compileShader(shader, source) returns, the shader's source is the
\* lines of source in order, compilation was triggered once, the result is true
\* exactly when the compile status is GL_TRUE, and what was written to std::cout
\* is the log when it is non-empty and nothing when it is empty.
C5_CompileShader ==
    \A which \in {"vs", "fs"} :
        Returned(which) =>
            LET o == objs[Shader(which)]
            IN  /\ o.strings = Source(which)
                /\ o.sourced = 1
                /\ o.compiles = 1
                /\ (compiled[which] = "true") <=> (o.status = 1)
                /\ compiled[which] \in {"true", "false"}
                /\ o.log # <<>> => WrittenBy(which) = <<Text("Log: "), Text("\n"), Raw(o.log)>>
                /\ o.log = <<>> => WrittenBy(which) = <<>>

C5_Witness ==
    /\ Returned("vs")
    /\ Len(vertexSource.lines) = 2 /\ vertexSource.lines[1] # vertexSource.lines[2]
    /\ compiled.vs = "false"
    /\ objs[vs].log # <<>>
    /\ Len(WrittenBy("vs")) = 3

\* ---- C6

\* the lines of text of a content: one per line feed, and the unterminated rest
NumLines(content) ==
    Cardinality({i \in 1..Len(content) : content[i] = NL})
        + (IF content # <<>> /\ content[Len(content)] # NL THEN 1 ELSE 0)

CountAndTerminators(content, r) ==
    /\ r.present
    /\ Len(r.lines) = NumLines(content)
    /\ \A i \in 1..Len(r.lines) : r.lines[i] # <<>> /\ r.lines[i][Len(r.lines[i])] = NL

\* C6 as stated: for an openable file of N lines the result is present, has N
\* elements each ending in the line terminator, and their concatenation is the
\* file's content, also when the last line has no terminator.
C6_RoundTrip ==
    Loaded =>
        \A l \in Loads :
            files[l[1]].openable =>
                /\ CountAndTerminators(files[l[1]].content, l[2])
                /\ Concat(l[2].lines) = files[l[1]].content

\* C6 amended: ... and their concatenation is the file's content when the content
\* is empty or ends in a line terminator, and the content followed by one line
\* terminator when its last line has none.
C6_RoundTripTerminated ==
    Loaded =>
        \A l \in Loads :
            files[l[1]].openable =>
                LET content == files[l[1]].content
                IN  /\ CountAndTerminators(content, l[2])
                    /\ Concat(l[2].lines) =
                           IF content = <<>> \/ content[Len(content)] = NL
                           THEN content ELSE content \o <<NL>>

C6_Witness ==
    /\ Loaded
    /\ files[VertFile].openable /\ files[VertFile].content = <<NL, "a">>
    /\ vertexSource.lines = << <<NL>>, <<"a", NL>> >>
    /\ files[FragFile].openable /\ files[FragFile].content = <<>>
    /\ fragmentSource.present /\ fragmentSource.lines = <<>>

\* ---- C7

\* C7: the result of readFileAsStdListOfStrings is absent exactly when the file
\* cannot be opened, and an absent result carries no data.
C7_AbsentIffUnopenable ==
    Loaded =>
        \A l \in Loads :
            /\ l[2].present <=> files[l[1]].openable
            /\ ~l[2].present => l[2].lines = <<>>

C7_Witness ==
    /\ Loaded
    /\ ~files[VertFile].openable /\ files[VertFile].content # <<>>
    /\ ~vertexSource.present
    /\ files[FragFile].openable /\ fragmentSource.present

\* ---- C8

PipelineOrder ==
    <<"createVs", "createFs", "sourceVs", "compileVs", "sourceFs", "compileFs",
      "createProgram", "attachVs", "attachFs", "link">>

Issued(cmd) == \E i \in 1..Len(calls) : calls[i] = cmd

\* C8: the backend steps of a run are a prefix of the fixed order (each at most
\* once, none repeated); the fragment compile is attempted only after the vertex
\* compile returned true, the program is created only after both returned true.
C8_FixedOrder ==
    /\ Len(calls) <= Len(PipelineOrder)
    /\ calls = SubSeq(PipelineOrder, 1, Len(calls))
    /\ (Issued("sourceFs") \/ Issued("compileFs")) => compiled.vs = "true"
    /\ (Issued("createProgram") \/ Issued("link")) =>
           compiled.vs = "true" /\ compiled.fs = "true"

C8_Witness ==
    /\ pc = "done" /\ returnedAt = "link"
    /\ calls = PipelineOrder

\* ---- C9

\* the statements right after an operation expected to succeed
AfterOperation ==
    /\ frame = "main" => pc \in {"checkVs", "checkFs", "checkProgram", "attachVsChk",
                                 "attachFsChk", "linkChk"}
    /\ frame # "main" => pc \in {"sourceChk", "compileChk"}

\* C9 as stated: whenever the error flag is set after such an operation, the
\* program aborts there: it takes no further pipeline step and returns no exit code.
C9_AbortsOnFlag ==
    [][(AfterOperation /\ glError # GL_NO_ERROR) => (pc' = "aborted" /\ exitCode' = <<>>)]_vars

\* a creation that gave the handle 0, which main answers with return 2
ZeroHandle ==
    \/ pc = "checkVs" /\ vs = 0
    \/ pc = "checkFs" /\ fs = 0
    \/ pc = "checkProgram" /\ program = 0

\* C9 amended: with assertions compiled in, whenever the error flag is set after
\* such an operation the program aborts there and returns no exit code, unless the
\* operation is a shader or program creation that gave the handle 0: then main
\* returns 2 without reading the flag.
C9_AbortsOnFlagUnlessZero ==
    /\ [][(AfterOperation /\ glError # GL_NO_ERROR) =>
            IF frame = "main" /\ ZeroHandle
            THEN pc' = "done" /\ exitCode' = <<2>> /\ glError' = glError
            ELSE pc' = "aborted" /\ exitCode' = <<>>]_vars
    /\ [](pc = "aborted" => exitCode = <<>>)

C9_Witness ==
    /\ pc = "aborted" /\ exitCode = <<>>
    /\ calls # <<>> /\ calls[Len(calls)] = "link"
    /\ err # <<>>

\* ---- C10

\* C10 as stated: compileShader is never running on an empty source sequence.
C10_NonEmptySource ==
    \A which \in {"vs", "fs"} : frame = which => Source(which) # <<>>

====
